---- MODULE Spec2Model ----
(***************************************************************************)
(* Model of the diff orchestrator of diff-match-patch (TypeScript port):   *)
(* diff(), _diff(), the surrogate-pair repair pass                         *)
(* (adjustDiffForSurrogatePairs / deisolateChar), levenshtein() and        *)
(* toDelta().                                                              *)
(*                                                                         *)
(* A text is a sequence of UTF-16 code units (integers).  A diff entry is  *)
(* the record [op, text] for the tuple [DiffType, string]; a diff sequence *)
(* is a sequence of entries.  The code indexes arrays from 0; the model    *)
(* keeps the code's 0-based indices and reads diffs[j] as diffs[j + 1].    *)
(***************************************************************************)
EXTENDS Integers, Sequences, FiniteSets, TLC

VARIABLES
  textA,     \* first argument of diff(): a text, Null or Undefined
  textB,     \* second argument of diff()
  opts,      \* the options argument: [hasTimeout, timeout]
  now,       \* the value Date.now() returns during the call (milliseconds)
  deadline,  \* InternalDiffOptions.deadline: [inf, ms]
  pc,        \* position of the running call
  diffs,     \* the diff array being built and mutated in place
  i,         \* loop index of the running loop (0-based, as in the code)
  dir,       \* direction argument of the last deisolateChar call
  entry,     \* the diff array as it was when the running operation started
  err,       \* message of the error thrown, "" when none
  out,       \* value returned by levenshtein() / toDelta()
  decoded    \* result of decoding the delta against textA

vars == <<textA, textB, opts, now, deadline, pc, diffs, i, dir, entry, err, out, decoded>>

----------------------------------------------------------------------------
(* enum DiffType *)
DELETE == -1
INSERT == 1
EQUAL == 0

DiffTypes == {DELETE, INSERT, EQUAL}

(* null for insertIdx / deleteIdx *)
Nil == -1

Max(a, b) == IF a >= b THEN a ELSE b
Min(a, b) == IF a <= b THEN a ELSE b

(* All sequences over S of length at most n. *)
SeqsUpTo(S, n) == UNION {[1..k -> S] : k \in 0..n}

(* All diff sequences of at most k entries whose texts are over the units  *)
(* U, are at least minLen long each and at most n units long together.      *)
RECURSIVE SizedSeqs(_, _, _, _)
SizedSeqs(U, k, n, minLen) ==
  IF k = 0 THEN {<<>>}
  ELSE {<<>>} \cup
       UNION {{<<[op |-> op, text |-> t]>> \o rest :
                 op \in {-1, 0, 1}, rest \in SizedSeqs(U, k - 1, n - Len(t), minLen)} :
              t \in {x \in SeqsUpTo(U, n) : Len(x) >= minLen}}

RECURSIVE Concat(_)
Concat(ss) == IF ss = <<>> THEN <<>> ELSE Head(ss) \o Concat(Tail(ss))

RECURSIVE SumSeq(_)
SumSeq(ns) == IF ns = <<>> THEN 0 ELSE Head(ns) + SumSeq(Tail(ns))

Diff(op, text) == [op |-> op, text |-> text]

(* diffs[j][1] = text, on the code's 0-based index j *)
SetText(ds, j, text) == [ds EXCEPT ![j + 1].text = text]

(* Array.prototype.splice(start, 0, item): a negative start counts from the *)
(* end of the array, and start is clamped to [0, length].                   *)
spliceInsert(ds, start, item) ==
  LET len == Len(ds)
      s == IF start < 0 THEN Max(len + start, 0) ELSE Min(start, len)
  IN SubSeq(ds, 1, s) \o <<item>> \o SubSeq(ds, s + 1, len)

(* Array.prototype.splice(start, 1) for 0 <= start < length *)
spliceRemove(ds, start) == SubSeq(ds, 1, start) \o SubSeq(ds, start + 2, Len(ds))

----------------------------------------------------------------------------
(* utils/surrogatePairs: UTF-16 surrogate ranges *)
isHighSurrogate(c) == c >= 55296 /\ c <= 56319
isLowSurrogate(c) == c >= 56320 /\ c <= 57343

(* Source text (EQUAL + DELETE) and destination text (EQUAL + INSERT). *)
RECURSIVE text1(_)
text1(ds) ==
  IF ds = <<>> THEN <<>>
  ELSE (IF Head(ds).op # INSERT THEN Head(ds).text ELSE <<>>) \o text1(Tail(ds))

RECURSIVE text2(_)
text2(ds) ==
  IF ds = <<>> THEN <<>>
  ELSE (IF Head(ds).op # DELETE THEN Head(ds).text ELSE <<>>) \o text2(Tail(ds))

----------------------------------------------------------------------------
(* diff.ts: combineChar, splitChar, hasSharedChar, deisolateChar *)

combineChar(data, char, d) == IF d = 1 THEN Append(data, char) ELSE <<char>> \o data

splitChar(data, d) ==
  IF d = 1
    THEN [rest |-> SubSeq(data, 1, Len(data) - 1), char |-> data[Len(data)]]
    ELSE [rest |-> Tail(data), char |-> Head(data)]

hasSharedChar(ds, a, b, d) ==
  IF d = 1
    THEN ds[a + 1].text[Len(ds[a + 1].text)] = ds[b + 1].text[Len(ds[b + 1].text)]
    ELSE ds[a + 1].text[1] = ds[b + 1].text[1]

(* The scan loop of deisolateChar (lines 123-150).  returned = TRUE is the  *)
(* early return of the consecutive-EQUAL branch.                            *)
RECURSIVE scanLoop(_, _, _, _, _, _)
scanLoop(ds, idx, d, j, insertIdx, deleteIdx) ==
  IF ~(j >= 0 /\ j < Len(ds) /\ (insertIdx = Nil \/ deleteIdx = Nil))
    THEN [returned |-> FALSE, diffs |-> ds, j |-> j,
          insertIdx |-> insertIdx, deleteIdx |-> deleteIdx]
  ELSE LET op == ds[j + 1].op
           text == ds[j + 1].text
       IN IF Len(text) = 0 THEN scanLoop(ds, idx, d, j + d, insertIdx, deleteIdx)
          ELSE IF op = INSERT
            THEN scanLoop(ds, idx, d, j + d, IF insertIdx = Nil THEN j ELSE insertIdx, deleteIdx)
          ELSE IF op = DELETE
            THEN scanLoop(ds, idx, d, j + d, insertIdx, IF deleteIdx = Nil THEN j ELSE deleteIdx)
          ELSE IF insertIdx = Nil /\ deleteIdx = Nil
            THEN LET sp == splitChar(ds[idx + 1].text, d)
                     d1 == SetText(ds, idx, sp.rest)
                 IN [returned |-> TRUE,
                     diffs |-> SetText(d1, j, combineChar(d1[j + 1].text, sp.char, -d)),
                     j |-> j, insertIdx |-> insertIdx, deleteIdx |-> deleteIdx]
            ELSE [returned |-> FALSE, diffs |-> ds, j |-> j,
                  insertIdx |-> insertIdx, deleteIdx |-> deleteIdx]

deisolateChar(ds, idx, d) ==
  LET inv == IF d = 1 THEN -1 ELSE 1
      s == scanLoop(ds, idx, d, idx + d, Nil, Nil)
  IN IF s.returned THEN s.diffs
     ELSE IF s.insertIdx # Nil /\ s.deleteIdx # Nil
             /\ hasSharedChar(ds, s.insertIdx, s.deleteIdx, d)
       THEN LET ins == splitChar(ds[s.insertIdx + 1].text, inv)
                del == splitChar(ds[s.deleteIdx + 1].text, inv)
                d1 == SetText(ds, s.insertIdx, ins.rest)
                d2 == SetText(d1, s.deleteIdx, del.rest)
            IN SetText(d2, idx, combineChar(d2[idx + 1].text, ins.char, d))
       ELSE LET sp == splitChar(ds[idx + 1].text, d)
                d1 == SetText(ds, idx, sp.rest)
                d2 == IF s.insertIdx = Nil
                        THEN spliceInsert(d1, s.j, Diff(INSERT, <<sp.char>>))
                        ELSE SetText(d1, s.insertIdx,
                                     combineChar(d1[s.insertIdx + 1].text, sp.char, inv))
                deleteIdx == IF s.insertIdx = Nil /\ s.deleteIdx # Nil /\ s.deleteIdx >= s.j
                               THEN s.deleteIdx + 1 ELSE s.deleteIdx
            IN IF deleteIdx = Nil
                 THEN spliceInsert(d2, s.j, Diff(DELETE, <<sp.char>>))
                 ELSE SetText(d2, deleteIdx,
                              combineChar(d2[deleteIdx + 1].text, sp.char, inv))

(* One iteration of the first loop of adjustDiffForSurrogatePairs (184-197). *)
(* The i++ of both loops (183, 200). *)
sameIndex(idx) == idx

nextIndex(idx) == idx + 1

adjustIterationForwardOnly(ds, idx) ==
  LET diffType == ds[idx + 1].op
      diffText == ds[idx + 1].text
  IN IF Len(diffText) = 0 THEN ds
     ELSE IF isHighSurrogate(diffText[Len(diffText)]) /\ diffType = EQUAL
       THEN deisolateChar(ds, idx, 1) ELSE ds

adjustIteration(ds, idx) ==
  LET diffType == ds[idx + 1].op
      diffText == ds[idx + 1].text
  IN IF Len(diffText) = 0 THEN ds
     ELSE LET firstChar == diffText[1]
              lastChar == diffText[Len(diffText)]
              d1 == IF isHighSurrogate(lastChar) /\ diffType = EQUAL
                      THEN deisolateChar(ds, idx, 1) ELSE ds
          IN IF isLowSurrogate(firstChar) /\ diffType = EQUAL
               THEN deisolateChar(d1, idx, -1) ELSE d1

(* One iteration of the second loop (201-204). *)
removeIteration(ds, idx) ==
  IF Len(ds[idx + 1].text) = 0 THEN spliceRemove(ds, idx) ELSE ds

----------------------------------------------------------------------------
(* Affix finder (commonPrefix.js / commonSuffix.js): the longest common     *)
(* prefix / suffix, backed off by one when the boundary would fall between  *)
(* a high and a low surrogate.                                              *)
RECURSIVE rawPrefix(_, _)
rawPrefix(a, b) ==
  IF a = <<>> \/ b = <<>> \/ Head(a) # Head(b) THEN 0
  ELSE 1 + rawPrefix(Tail(a), Tail(b))

RECURSIVE Reverse(_)
Reverse(s) == IF s = <<>> THEN <<>> ELSE Append(Reverse(Tail(s)), Head(s))

(* TRUE when cutting t after its first n units separates a surrogate pair. *)
splitsPair(t, n) ==
  n >= 1 /\ n < Len(t) /\ isHighSurrogate(t[n]) /\ isLowSurrogate(t[n + 1])

commonPrefix(a, b) ==
  LET n == rawPrefix(a, b)
  IN IF splitsPair(a, n) \/ splitsPair(b, n) THEN n - 1 ELSE n

commonSuffix(a, b) ==
  LET n == rawPrefix(Reverse(a), Reverse(b))
  IN IF splitsPair(a, Len(a) - n) \/ splitsPair(b, Len(b) - n) THEN n - 1 ELSE n

----------------------------------------------------------------------------
(* Merge cleanup (cleanup.js), from its description: within every maximal   *)
(* run of edits the deleted text is gathered into one DELETE and the        *)
(* inserted text into one INSERT (deletes first), a common prefix / suffix  *)
(* of the two moves into the neighbouring EQUAL, adjacent equalities are    *)
(* joined, empty entries are dropped; repeated until nothing changes.       *)
(* A block is an equality followed by the edit run after it.                *)
Block(eq, del, ins) == [eq |-> eq, del |-> del, ins |-> ins]

RECURSIVE toBlocks(_, _)
toBlocks(ds, cur) ==
  IF ds = <<>> THEN <<cur>>
  ELSE LET e == Head(ds)
       IN IF e.op = DELETE THEN toBlocks(Tail(ds), [cur EXCEPT !.del = @ \o e.text])
          ELSE IF e.op = INSERT THEN toBlocks(Tail(ds), [cur EXCEPT !.ins = @ \o e.text])
          ELSE IF e.text = <<>> THEN toBlocks(Tail(ds), cur)
          ELSE IF cur.del = <<>> /\ cur.ins = <<>>
            THEN toBlocks(Tail(ds), [cur EXCEPT !.eq = @ \o e.text])
            ELSE <<cur>> \o toBlocks(Tail(ds), Block(e.text, <<>>, <<>>))

(* Factor the common prefix of a run into its own equality and the common   *)
(* suffix into the equality that follows (carry is that suffix, travelling  *)
(* to the next block).                                                      *)
RECURSIVE factorBlocks(_, _)
factorBlocks(bs, carry) ==
  IF bs = <<>> THEN (IF carry = <<>> THEN <<>> ELSE <<Diff(EQUAL, carry)>>)
  ELSE LET b == Head(bs)
           both == b.del # <<>> /\ b.ins # <<>>
           p == IF both THEN commonPrefix(b.ins, b.del) ELSE 0
           del1 == SubSeq(b.del, p + 1, Len(b.del))
           ins1 == SubSeq(b.ins, p + 1, Len(b.ins))
           s == IF both THEN commonSuffix(ins1, del1) ELSE 0
           eq == carry \o b.eq \o SubSeq(b.del, 1, p)
           del2 == SubSeq(del1, 1, Len(del1) - s)
           ins2 == SubSeq(ins1, 1, Len(ins1) - s)
       IN (IF eq = <<>> THEN <<>> ELSE <<Diff(EQUAL, eq)>>)
          \o (IF del2 = <<>> THEN <<>> ELSE <<Diff(DELETE, del2)>>)
          \o (IF ins2 = <<>> THEN <<>> ELSE <<Diff(INSERT, ins2)>>)
          \o factorBlocks(Tail(bs), SubSeq(del1, Len(del1) - s + 1, Len(del1)))

mergePass(ds) == factorBlocks(toBlocks(ds, Block(<<>>, <<>>, <<>>)), <<>>)

RECURSIVE cleanupMerge(_)
cleanupMerge(ds) ==
  LET next == mergePass(ds) IN IF next = ds THEN ds ELSE cleanupMerge(next)

----------------------------------------------------------------------------
(* Compute dispatch (compute.js), from its description.  The result is a   *)
(* set: the bisection engine is a Myers search, so it returns a shortest   *)
(* edit script (which one is left open), or, when the deadline expires,    *)
(* the pair DELETE(t1) + INSERT(t2).  Half-match and line mode need texts  *)
(* longer than the ones modelled here.                                     *)

(* Index (0-based) of the first occurrence of short in long, or -1. *)
RECURSIVE indexOf(_, _, _)
indexOf(long, short, from) ==
  IF from + Len(short) > Len(long) THEN -1
  ELSE IF SubSeq(long, from + 1, from + Len(short)) = short THEN from
  ELSE indexOf(long, short, from + 1)

(* Every edit script of (a, b), one entry per code unit, deletions before *)
(* insertions inside a run (lastOp is the kind of the entry before).      *)
RECURSIVE editScripts(_, _, _)
editScripts(a, b, lastOp) ==
  IF a = <<>> /\ b = <<>> THEN {<<>>}
  ELSE (IF a # <<>> /\ lastOp # INSERT
          THEN {<<Diff(DELETE, <<Head(a)>>)>> \o r : r \in editScripts(Tail(a), b, DELETE)}
          ELSE {})
       \cup (IF b # <<>>
          THEN {<<Diff(INSERT, <<Head(b)>>)>> \o r : r \in editScripts(a, Tail(b), INSERT)}
          ELSE {})
       \cup (IF a # <<>> /\ b # <<>> /\ Head(a) = Head(b)
          THEN {<<Diff(EQUAL, <<Head(a)>>)>> \o r : r \in editScripts(Tail(a), Tail(b), EQUAL)}
          ELSE {})

editCost(script) == Cardinality({k \in 1..Len(script) : script[k].op # EQUAL})

shortestScripts(a, b) ==
  LET all == editScripts(a, b, EQUAL)
      best == CHOOSE c \in {editCost(s) : s \in all} :
                \A s \in all : c <= editCost(s)
  IN {s \in all : editCost(s) = best}

bisect(t1, t2, dl) ==
  shortestScripts(t1, t2)
    \cup (IF dl.inf THEN {} ELSE {<<Diff(DELETE, t1), Diff(INSERT, t2)>>})

compute_(t1, t2, dl) ==
  IF t1 = <<>> THEN {<<Diff(INSERT, t2)>>}
  ELSE IF t2 = <<>> THEN {<<Diff(DELETE, t1)>>}
  ELSE LET long == IF Len(t1) > Len(t2) THEN t1 ELSE t2
           short == IF Len(t1) > Len(t2) THEN t2 ELSE t1
           op == IF Len(t1) > Len(t2) THEN DELETE ELSE INSERT
           at == indexOf(long, short, 0)
       IN IF at # -1
            THEN {<<Diff(op, SubSeq(long, 1, at)), Diff(EQUAL, short),
                    Diff(op, SubSeq(long, at + Len(short) + 1, Len(long)))>>}
          ELSE IF Len(t1) = 1 /\ Len(t2) = 1
            THEN {<<Diff(DELETE, t1), Diff(INSERT, t2)>>}
          ELSE bisect(t1, t2, dl)

(* _diff (diff.ts 241-275) for two strings: the set of arrays it can return. *)
_diff(a, b, dl) ==
  IF a = b THEN {IF a # <<>> THEN <<Diff(EQUAL, a)>> ELSE <<>>}
  ELSE LET n == commonPrefix(a, b)
           commonprefix == SubSeq(a, 1, n)
           a1 == SubSeq(a, n + 1, Len(a))
           b1 == SubSeq(b, n + 1, Len(b))
           m == commonSuffix(a1, b1)
           commonsuffix == SubSeq(a1, Len(a1) - m + 1, Len(a1))
           a2 == SubSeq(a1, 1, Len(a1) - m)
           b2 == SubSeq(b1, 1, Len(b1) - m)
       IN {cleanupMerge((IF commonprefix # <<>> THEN <<Diff(EQUAL, commonprefix)>> ELSE <<>>)
                        \o ds
                        \o (IF commonsuffix # <<>> THEN <<Diff(EQUAL, commonsuffix)>> ELSE <<>>))
             : ds \in compute_(a2, b2, dl)}

----------------------------------------------------------------------------
(* Options and deadline (diff.ts 49-63).  A number argument is the record  *)
(* [defined, value]; a point in time is [inf, ms], inf for Infinity (what   *)
(* Date.now() + Number.MAX_VALUE * 1000 evaluates to).                      *)
Num(v) == [defined |-> TRUE, value |-> v]
UndefinedNum == [defined |-> FALSE, value |-> 0]

createDeadLine(timeout, nowMs) ==
  LET t == IF timeout.defined THEN timeout.value ELSE 1
  IN IF timeout.defined /\ timeout.value <= 0
       THEN [inf |-> TRUE, ms |-> 0]
       ELSE [inf |-> FALSE, ms |-> nowMs + t * 1000]

(* opts.timeout || 1.0: undefined and 0 are falsy *)
timeoutOrDefault(o) == IF o.defined /\ o.value # 0 THEN o ELSE Num(1)

(* The deadline field of createInternalOpts(opts); opts carries no deadline *)
(* key, so the spread of opts leaves it alone.                              *)
createInternalOpts(o, nowMs) == createDeadLine(timeoutOrDefault(o), nowMs)

----------------------------------------------------------------------------
(* levenshtein (part_001 10-37): the loop over the entries, then the final *)
(* addition.                                                               *)
RECURSIVE levenshteinLoop(_, _, _, _, _)
levenshteinLoop(ds, x, leven, insertions, deletions) ==
  IF x >= Len(ds) THEN leven + Max(insertions, deletions)
  ELSE LET op == ds[x + 1].op
           data == ds[x + 1].text
       IN IF op = INSERT
            THEN levenshteinLoop(ds, x + 1, leven, insertions + Len(data), deletions)
          ELSE IF op = DELETE
            THEN levenshteinLoop(ds, x + 1, leven, insertions, deletions + Len(data))
          ELSE levenshteinLoop(ds, x + 1, leven + Max(insertions, deletions), 0, 0)

levenshteinDeletions(ds) ==
  SumSeq([k \in 1..Len(ds) |-> IF ds[k].op = DELETE THEN Len(ds[k].text) ELSE 0])

levenshteinAdds(ds) ==
  SumSeq([k \in 1..Len(ds) |-> IF ds[k].op = EQUAL THEN 0 ELSE Len(ds[k].text)])

levenshtein(ds) == levenshteinLoop(ds, 0, 0, 0, 0)

----------------------------------------------------------------------------
(* encodeURI (ECMAScript): letters, digits and ; / ? : @ & = + $ , - _ . ! *)
(* ~ * ' ( ) # stay; every other character is written as the %XX escapes   *)
(* of its UTF-8 bytes; a surrogate that is not half of a pair throws        *)
(* URIError.  The result is [threw, text].                                  *)
uriKept(c) ==
  \/ c \in 65..90 \/ c \in 97..122 \/ c \in 48..57
  \/ c \in {59, 47, 63, 58, 64, 38, 61, 43, 36, 44, 45, 95, 46, 33, 126, 42, 39, 40, 41, 35}

hexDigit(n) == IF n < 10 THEN 48 + n ELSE 55 + n

escapeByte(b) == <<37, hexDigit(b \div 16), hexDigit(b % 16)>>

utf8Bytes(cp) ==
  IF cp < 128 THEN <<cp>>
  ELSE IF cp < 2048 THEN <<192 + (cp \div 64), 128 + (cp % 64)>>
  ELSE IF cp < 65536
    THEN <<224 + (cp \div 4096), 128 + ((cp \div 64) % 64), 128 + (cp % 64)>>
  ELSE <<240 + (cp \div 262144), 128 + ((cp \div 4096) % 64),
         128 + ((cp \div 64) % 64), 128 + (cp % 64)>>

RECURSIVE escapeBytes(_)
escapeBytes(bs) == IF bs = <<>> THEN <<>> ELSE escapeByte(Head(bs)) \o escapeBytes(Tail(bs))

Threw == [threw |-> TRUE, text |-> <<>>]
Returns(t) == [threw |-> FALSE, text |-> t]
Prepend(t, r) == IF r.threw THEN r ELSE Returns(t \o r.text)

RECURSIVE encodeURI(_)
encodeURI(str) ==
  IF str = <<>> THEN Returns(<<>>)
  ELSE LET c == Head(str)
       IN IF uriKept(c) THEN Prepend(<<c>>, encodeURI(Tail(str)))
          ELSE IF isLowSurrogate(c) THEN Threw
          ELSE IF isHighSurrogate(c)
            THEN IF Len(str) >= 2 /\ isLowSurrogate(str[2])
                   THEN Prepend(escapeBytes(utf8Bytes(65536 + (c - 55296) * 1024 + (str[2] - 56320))),
                                encodeURI(Tail(Tail(str))))
                   ELSE Threw
          ELSE Prepend(escapeBytes(utf8Bytes(c)), encodeURI(Tail(str)))

(* Number to its decimal digits, as `${n}` writes it. *)
RECURSIVE decimal(_)
decimal(n) == IF n < 10 THEN <<48 + n>> ELSE decimal(n \div 10) \o <<48 + (n % 10)>>

(* Array.prototype.join('\t') *)
RECURSIVE joinTab(_)
joinTab(toks) ==
  IF toks = <<>> THEN <<>>
  ELSE IF Len(toks) = 1 THEN toks[1]
  ELSE toks[1] \o <<9>> \o joinTab(Tail(toks))

(* String.prototype.replace(/%20/g, ' ') *)
RECURSIVE replacePercent20(_)
replacePercent20(str) ==
  IF Len(str) < 3 THEN str
  ELSE IF SubSeq(str, 1, 3) = <<37, 50, 48>>
    THEN <<32>> \o replacePercent20(SubSeq(str, 4, Len(str)))
  ELSE <<Head(str)>> \o replacePercent20(Tail(str))

(* One pushed token of toDelta (part_002 16-30): [threw, text]. *)
deltaToken(d) ==
  IF d.op = INSERT THEN Prepend(<<43>>, encodeURI(d.text))
  ELSE IF d.op = DELETE THEN Returns(<<45>> \o decimal(Len(d.text)))
  ELSE Returns(<<61>> \o decimal(Len(d.text)))

(* toDelta (part_002 13-33): [threw, text], threw when encodeURI throws. *)
toDelta(ds) ==
  LET toks == [k \in 1..Len(ds) |-> deltaToken(ds[k])]
  IN IF \E k \in 1..Len(ds) : toks[k].threw THEN Threw
     ELSE Returns(replacePercent20(joinTab([k \in 1..Len(ds) |-> toks[k].text])))

----------------------------------------------------------------------------
(* fromDelta, from the delta text format: tab-separated tokens; '=n' keeps  *)
(* n source characters, '-n' deletes n source characters, '+text' inserts   *)
(* the percent-decoded text.  A format error on an unknown leading          *)
(* character, a non-numeric length, a bad escape, or a consumed length      *)
(* beyond the source text.  The result is [threw, diffs].                   *)
RECURSIVE splitLoop(_, _)
splitLoop(str, cur) ==
  IF str = <<>> THEN <<cur>>
  ELSE IF Head(str) = 9 THEN <<cur>> \o splitLoop(Tail(str), <<>>)
  ELSE splitLoop(Tail(str), Append(cur, Head(str)))

splitTab(str) == splitLoop(str, <<>>)

hexValue(c) ==
  IF c \in 48..57 THEN c - 48
  ELSE IF c \in 65..70 THEN c - 55
  ELSE IF c \in 97..102 THEN c - 87
  ELSE -1

(* The byte written by the escape at position p (1-based) of str, or -1. *)
escapeAt(str, p) ==
  IF p + 2 <= Len(str) /\ str[p] = 37 /\ hexValue(str[p + 1]) >= 0 /\ hexValue(str[p + 2]) >= 0
    THEN hexValue(str[p + 1]) * 16 + hexValue(str[p + 2])
    ELSE -1

utf16Units(cp) ==
  IF cp < 65536 THEN <<cp>>
  ELSE <<55296 + ((cp - 65536) \div 1024), 56320 + ((cp - 65536) % 1024)>>

RECURSIVE percentDecode(_)
percentDecode(str) ==
  IF str = <<>> THEN Returns(<<>>)
  ELSE IF Head(str) # 37 THEN Prepend(<<Head(str)>>, percentDecode(Tail(str)))
  ELSE LET b0 == escapeAt(str, 1)
           n == IF b0 \in 192..223 THEN 1
                ELSE IF b0 \in 224..239 THEN 2
                ELSE IF b0 \in 240..247 THEN 3 ELSE 0
           lead == IF n = 1 THEN b0 - 192 ELSE IF n = 2 THEN b0 - 224 ELSE b0 - 240
           cont(k) == escapeAt(str, 3 * k + 1)
       IN IF b0 < 0 THEN Threw
          ELSE IF b0 < 128 THEN Prepend(<<b0>>, percentDecode(SubSeq(str, 4, Len(str))))
          ELSE IF n = 0 \/ \E k \in 1..n : cont(k) \notin 128..191 THEN Threw
          ELSE LET cp == IF n = 1 THEN lead * 64 + (cont(1) - 128)
                         ELSE IF n = 2 THEN lead * 4096 + (cont(1) - 128) * 64 + (cont(2) - 128)
                         ELSE lead * 262144 + (cont(1) - 128) * 4096
                              + (cont(2) - 128) * 64 + (cont(3) - 128)
               IN Prepend(utf16Units(cp), percentDecode(SubSeq(str, 3 * n + 4, Len(str))))

(* The number written by a string of decimal digits, or -1. *)
RECURSIVE parseLength(_, _)
parseLength(digits, acc) ==
  IF digits = <<>> THEN acc
  ELSE IF Head(digits) \notin 48..57 THEN -1
  ELSE parseLength(Tail(digits), acc * 10 + (Head(digits) - 48))

DeltaThrew == [threw |-> TRUE, diffs |-> <<>>]

RECURSIVE fromDeltaLoop(_, _, _)
fromDeltaLoop(source, tokens, pointer) ==
  IF tokens = <<>>
    THEN IF pointer > Len(source) THEN DeltaThrew ELSE [threw |-> FALSE, diffs |-> <<>>]
  ELSE LET token == Head(tokens)
           param == Tail(token)
           n == IF param = <<>> THEN -1 ELSE parseLength(param, 0)
           ins == percentDecode(param)
           rest(ptr) == fromDeltaLoop(source, Tail(tokens), ptr)
           cons(d, r) == IF r.threw THEN r ELSE [threw |-> FALSE, diffs |-> <<d>> \o r.diffs]
       IN IF token = <<>> THEN rest(pointer)
          ELSE IF token[1] = 43
            THEN IF ins.threw THEN DeltaThrew ELSE cons(Diff(INSERT, ins.text), rest(pointer))
          ELSE IF token[1] \in {45, 61}
            THEN IF n < 0 THEN DeltaThrew
                 ELSE cons(Diff(IF token[1] = 45 THEN DELETE ELSE EQUAL,
                                SubSeq(source, pointer + 1, Min(pointer + n, Len(source)))),
                           rest(pointer + n))
          ELSE DeltaThrew

fromDelta(source, delta) == fromDeltaLoop(source, splitTab(delta), 0)

----------------------------------------------------------------------------
(* Inputs.  null and undefined are the one-element sequences <<-1>>, <<-2>> *)
(* (no code unit is negative).                                              *)
Null == <<-1>>
Undefined == <<-2>>

IsString(t) == t # Null /\ t # Undefined

(* Texts are built from these pieces: a space, a percent sign, three        *)
(* supplementary-plane characters (U+1F600, U+1F300, U+1F700) as surrogate  *)
(* pairs, a lone high surrogate and a lone low surrogate.                   *)
TextAtoms ==
  {<<32>>, <<37>>, <<55357, 56832>>, <<55356, 57088>>, <<55357, 57088>>,
   <<55357>>, <<56832>>}

MaxAtoms == 2

Texts == {Concat(s) : s \in SeqsUpTo(TextAtoms, MaxAtoms)}

Timeouts == {UndefinedNum, Num(-1), Num(0), Num(2)}

NullInputError == "Null input. (diff)"
TypeError == "TypeError"
URIError == "URIError"
DeltaError == "DeltaError"

Idle ==
  /\ deadline = [inf |-> FALSE, ms |-> 0]
  /\ i = 0 /\ dir = 0
  /\ err = ""
  /\ out = <<>> /\ decoded = <<>>

NoCall == textA = <<>> /\ textB = <<>> /\ opts = UndefinedNum /\ now = 0

Init ==
  /\ textA \in Texts \cup {Null, Undefined}
  /\ textB \in Texts \cup {Null, Undefined}
  /\ opts \in Timeouts
  /\ now = 0
  /\ pc = "call"
  /\ diffs = <<>> /\ entry = <<>>
  /\ Idle

(* diff(): the null check (223-225). *)
Diff_NullInput ==
  /\ pc = "call"
  /\ textA = Null \/ textB = Null
  /\ pc' = "thrown"
  /\ err' = NullInputError
  /\ UNCHANGED <<textA, textB, opts, now, deadline, diffs, i, dir, entry, out, decoded>>

(* diff() with both texts undefined: the null check passes, and _diff       *)
(* returns [] at its equality test (247-249).                               *)
Diff_BothUndefined ==
  /\ pc = "call"
  /\ textA = Undefined /\ textB = Undefined
  /\ deadline' = createInternalOpts(opts, now)
  /\ diffs' = <<>>
  /\ entry' = <<>>
  /\ pc' = "adjust"
  /\ i' = 0
  /\ UNCHANGED <<textA, textB, opts, now, dir, err, out, decoded>>

(* diff() with exactly one text undefined: the null check passes, and the   *)
(* substring call on undefined (253-255) throws a TypeError.                *)
Diff_OneUndefined ==
  /\ pc = "call"
  /\ textA # Null /\ textB # Null
  /\ (textA = Undefined) # (textB = Undefined)
  /\ deadline' = createInternalOpts(opts, now)
  /\ pc' = "thrown"
  /\ err' = TypeError
  /\ UNCHANGED <<textA, textB, opts, now, diffs, i, dir, entry, out, decoded>>

(* diff() on two strings, up to the call of adjustDiffForSurrogatePairs. *)
Diff_Compute ==
  /\ pc = "call"
  /\ IsString(textA) /\ IsString(textB)
  /\ deadline' = createInternalOpts(opts, now)
  /\ \E ds \in _diff(textA, textB, createInternalOpts(opts, now)) :
       /\ diffs' = ds
       /\ entry' = ds
  /\ pc' = "adjust"
  /\ i' = 0
  /\ UNCHANGED <<textA, textB, opts, now, dir, err, out, decoded>>

(* adjustDiffForSurrogatePairs: one iteration of the first loop, and its exit. *)
Adjust_Step ==
  /\ pc = "adjust"
  /\ i < Len(diffs)
  /\ diffs' = adjustIteration(diffs, i)
  /\ i' = nextIndex(i)
  /\ UNCHANGED <<textA, textB, opts, now, deadline, pc, dir, entry, err, out, decoded>>

Adjust_Exit ==
  /\ pc = "adjust"
  /\ i >= Len(diffs)
  /\ pc' = "remove"
  /\ i' = 0
  /\ UNCHANGED <<textA, textB, opts, now, deadline, diffs, dir, entry, err, out, decoded>>

(* adjustDiffForSurrogatePairs: one iteration of the second loop, and the   *)
(* return (of adjustDiffForSurrogatePairs and of diff()).                   *)
Remove_Step ==
  /\ pc = "remove"
  /\ i < Len(diffs)
  /\ diffs' = removeIteration(diffs, i)
  /\ i' = nextIndex(i)
  /\ UNCHANGED <<textA, textB, opts, now, deadline, pc, dir, entry, err, out, decoded>>

Remove_Exit ==
  /\ pc = "remove"
  /\ i >= Len(diffs)
  /\ pc' = "returned"
  /\ UNCHANGED <<textA, textB, opts, now, deadline, diffs, i, dir, entry, err, out, decoded>>

(* toDelta(diffs), on the array diff() returned or on a given array. *)
ToDelta ==
  /\ pc \in {"returned", "sequence"}
  /\ LET r == toDelta(diffs)
     IN IF r.threw
          THEN pc' = "thrown" /\ err' = URIError /\ out' = out
          ELSE pc' = "encoded" /\ err' = err /\ out' = r.text
  /\ UNCHANGED <<textA, textB, opts, now, deadline, diffs, i, dir, entry, decoded>>

(* fromDelta(textA, delta) on the delta toDelta returned. *)
FromDelta ==
  /\ pc = "encoded"
  /\ LET r == fromDelta(textA, out)
     IN IF r.threw
          THEN pc' = "thrown" /\ err' = DeltaError /\ decoded' = decoded
          ELSE pc' = "decoded" /\ err' = err /\ decoded' = r.diffs
  /\ UNCHANGED <<textA, textB, opts, now, deadline, diffs, i, dir, entry, out>>

Next ==
  \/ Diff_NullInput
  \/ Diff_BothUndefined
  \/ Diff_OneUndefined
  \/ Diff_Compute
  \/ Adjust_Step
  \/ Adjust_Exit
  \/ Remove_Step
  \/ Remove_Exit
  \/ ToDelta
  \/ FromDelta

Spec == Init /\ [][Next]_vars

----------------------------------------------------------------------------
(* diff() on texts in which every surrogate is half of a pair. *)
PairedAtoms == {<<32>>, <<55357, 56832>>, <<55356, 57088>>, <<55357, 57088>>}

MaxChars == 2

PairedTexts == {Concat(s) : s \in SeqsUpTo(PairedAtoms, MaxChars)}

InitPaired ==
  /\ textA \in PairedTexts
  /\ textB \in PairedTexts
  /\ opts \in {UndefinedNum, Num(-1)}
  /\ now = 0
  /\ pc = "call"
  /\ diffs = <<>> /\ entry = <<>>
  /\ Idle

NextPaired ==
  \/ Diff_Compute
  \/ Adjust_Step
  \/ Adjust_Exit
  \/ Remove_Step
  \/ Remove_Exit

SpecPaired == InitPaired /\ [][NextPaired]_vars

----------------------------------------------------------------------------
(* createInternalOpts alone, over timeouts and clock readings. *)
MaxTimeout == 3
MaxNow == 30

InitOpts ==
  /\ opts \in {UndefinedNum} \cup {Num(t) : t \in -1..MaxTimeout}
  /\ now \in 0..MaxNow
  /\ textA = <<>> /\ textB = <<>>
  /\ pc = "options"
  /\ diffs = <<>> /\ entry = <<>>
  /\ Idle

CreateInternalOpts ==
  /\ pc = "options"
  /\ deadline' = createInternalOpts(opts, now)
  /\ pc' = "optionsDone"
  /\ UNCHANGED <<textA, textB, opts, now, diffs, i, dir, entry, err, out, decoded>>

NextOpts == CreateInternalOpts

SpecOpts == InitOpts /\ [][NextOpts]_vars

----------------------------------------------------------------------------
(* adjustDiffForSurrogatePairs on any array in merge normal form: no empty  *)
(* text, no two neighbours of the same kind.                                *)
RepairUnits == {32, 55357, 56832}

MaxRepairText == 2
MaxRepairEntries == 3

RepairTexts == SeqsUpTo(RepairUnits, MaxRepairText) \ {<<>>}

NormalForm(ds) ==
  /\ \A k \in 1..Len(ds) : ds[k].text # <<>>
  /\ \A k \in 1..(Len(ds) - 1) : ds[k].op # ds[k + 1].op

RepairSeqs ==
  {ds \in SeqsUpTo([op : DiffTypes, text : RepairTexts], MaxRepairEntries) : NormalForm(ds)}

InitRepair ==
  /\ diffs \in RepairSeqs
  /\ entry = diffs
  /\ pc = "adjust"
  /\ NoCall
  /\ Idle

NextRepair ==
  \/ Adjust_Step
  \/ Adjust_Exit
  \/ Remove_Step
  \/ Remove_Exit

SpecRepair == InitRepair /\ [][NextRepair]_vars

----------------------------------------------------------------------------
(* deisolateChar on any array, at any non-empty EQUAL, in both directions. *)
DeisolateUnits == {97, 98}

MaxDeisolateText == 2
MaxDeisolateEntries == 3

DeisolateSeqs ==
  SeqsUpTo([op : DiffTypes, text : SeqsUpTo(DeisolateUnits, MaxDeisolateText)],
           MaxDeisolateEntries)

InitDeisolate ==
  /\ diffs \in DeisolateSeqs
  /\ entry = diffs
  /\ pc = "sequence"
  /\ NoCall
  /\ Idle

Deisolate ==
  /\ pc = "sequence"
  /\ \E idx \in 0..(Len(diffs) - 1), d \in {1, -1} :
       /\ diffs[idx + 1].op = EQUAL
       /\ diffs[idx + 1].text # <<>>
       /\ diffs' = deisolateChar(diffs, idx, d)
       /\ i' = idx
       /\ dir' = d
  /\ pc' = "deisolated"
  /\ UNCHANGED <<textA, textB, opts, now, deadline, entry, err, out, decoded>>

NextDeisolate == Deisolate

SpecDeisolate == InitDeisolate /\ [][NextDeisolate]_vars

----------------------------------------------------------------------------
(* levenshtein on any array; only the lengths of the texts matter to it. *)
MaxLevText == 2
MaxLevEntries == 4

LevSeqs ==
  SeqsUpTo([op : DiffTypes, text : SeqsUpTo({97}, MaxLevText)], MaxLevEntries)

InitLev ==
  /\ diffs \in LevSeqs
  /\ entry = diffs
  /\ pc = "sequence"
  /\ NoCall
  /\ Idle

Levenshtein ==
  /\ pc = "sequence"
  /\ out' = levenshtein(diffs)
  /\ pc' = "measured"
  /\ UNCHANGED <<textA, textB, opts, now, deadline, diffs, i, dir, entry, err, decoded>>

NextLev == Levenshtein

SpecLev == InitLev /\ [][NextLev]_vars

----------------------------------------------------------------------------
(* toDelta on any array.  Inserted texts are built from a space, a tab, a   *)
(* percent sign, the three characters "%20", a letter, a surrogate pair and *)
(* a lone high surrogate; kept and deleted texts only by their length.      *)
DeltaAtoms ==
  {<<32>>, <<9>>, <<37>>, <<37, 50, 48>>, <<97>>, <<55357, 56832>>, <<55357>>}

MaxDeltaAtoms == 1
MaxDeltaKeep == 10
MaxDeltaEntries == 2

DeltaEntries ==
  {Diff(INSERT, Concat(s)) : s \in SeqsUpTo(DeltaAtoms, MaxDeltaAtoms)}
    \cup {Diff(op, [k \in 1..n |-> 97]) : op \in {DELETE, EQUAL}, n \in 0..MaxDeltaKeep}

InitDelta ==
  /\ diffs \in SeqsUpTo(DeltaEntries, MaxDeltaEntries)
  /\ entry = diffs
  /\ pc = "sequence"
  /\ NoCall
  /\ Idle

NextDelta == ToDelta

SpecDelta == InitDelta /\ [][NextDelta]_vars

----------------------------------------------------------------------------
(* Vocabulary of the properties. *)
wellPaired(t) ==
  \A k \in 1..Len(t) :
    /\ isHighSurrogate(t[k]) => k < Len(t) /\ isLowSurrogate(t[k + 1])
    /\ isLowSurrogate(t[k]) => k > 1 /\ isHighSurrogate(t[k - 1])

splitsNoPair(t) ==
  t = <<>> \/ (~isHighSurrogate(t[Len(t)]) /\ ~isLowSurrogate(t[1]))

BothStrings == IsString(textA) /\ IsString(textB)

Absent(t) == t = Null \/ t = Undefined

(* C1: for all non-null text pairs (a, b), the sequence diff(a, b) returns  *)
(* reconstructs both inputs: its EQUAL and DELETE texts concatenate to a,   *)
(* its EQUAL and INSERT texts concatenate to b.                             *)
C1_Reconstructs ==
  pc = "returned" /\ BothStrings => text1(diffs) = textA /\ text2(diffs) = textB

(* C2: for texts in which every surrogate is half of a pair, no entry of    *)
(* the sequence diff(a, b) returns ends with a high surrogate or begins     *)
(* with a low surrogate.                                                    *)
C2_NoSplitPair ==
  pc = "returned" /\ BothStrings /\ wellPaired(textA) /\ wellPaired(textB)
    => \A k \in 1..Len(diffs) : splitsNoPair(diffs[k].text)

(* C2's case: the computed sequence split a pair, and the repair changed it. *)
C2_RepairActed ==
  /\ pc = "returned" /\ BothStrings /\ wellPaired(textA) /\ wellPaired(textB)
  /\ \E k \in 1..Len(entry) : ~splitsNoPair(entry[k].text)
  /\ diffs # entry

(* C3: diff(a, a) returns [(EQUAL, a)] for a non-empty string a and [] for  *)
(* the empty string.                                                        *)
C3_SameText ==
  pc = "returned" /\ BothStrings /\ textA = textB
    => diffs = IF textA = <<>> THEN <<>> ELSE <<Diff(EQUAL, textA)>>

(* C4: diff(textA, textB) fails with the null-input error whenever either   *)
(* text is null or undefined, returning no sequence, and raises no error    *)
(* when both texts are strings.                                             *)
C4_NullInput ==
  pc \in {"thrown", "adjust", "remove", "returned"}
    => /\ (Absent(textA) \/ Absent(textB)) => pc = "thrown" /\ err = NullInputError
       /\ BothStrings /\ pc # "thrown" => err = ""
       /\ BothStrings /\ pc = "thrown" => err \notin {NullInputError, TypeError}

(* C5: a timeout of 0 gives a deadline that never expires, a positive       *)
(* timeout t a deadline t seconds after the call, an omitted timeout a      *)
(* deadline 1 second after the call.                                        *)
C5_TimeoutZeroUnbounded ==
  pc = "optionsDone"
    => /\ opts = Num(0) => deadline.inf
       /\ opts.defined /\ opts.value > 0
            => ~deadline.inf /\ deadline.ms = now + opts.value * 1000
       /\ ~opts.defined => ~deadline.inf /\ deadline.ms = now + 1000

(* C6: for every sequence with no empty text and no two neighbours of the   *)
(* same kind on entry to adjustDiffForSurrogatePairs, every entry on return *)
(* has a text of length at least 1.                                         *)
C6_NoEmptyEntry ==
  pc = "returned" /\ NormalForm(entry) => \A k \in 1..Len(diffs) : Len(diffs[k].text) >= 1

(* The maximal runs of INSERT/DELETE entries: a run starts after position b *)
(* (0, or the position of an EQUAL) and ends before the next EQUAL.         *)
runEnd(ds, b) ==
  CHOOSE e \in (b + 1)..(Len(ds) + 1) :
    /\ e = Len(ds) + 1 \/ ds[e].op = EQUAL
    /\ \A k \in (b + 1)..(e - 1) : ds[k].op # EQUAL

runLength(ds, b, op) ==
  SumSeq([k \in 1..Len(ds) |->
            IF k > b /\ k < runEnd(ds, b) /\ ds[k].op = op THEN Len(ds[k].text) ELSE 0])

sumOfRunMaxima(ds) ==
  SumSeq([n \in 1..(Len(ds) + 1) |->
            IF n = 1 \/ ds[n - 1].op = EQUAL
              THEN Max(runLength(ds, n - 1, INSERT), runLength(ds, n - 1, DELETE))
              ELSE 0])

totalLength(ds, op) ==
  SumSeq([k \in 1..Len(ds) |-> IF ds[k].op = op THEN Len(ds[k].text) ELSE 0])

(* C7: levenshtein(diffs) is the sum, over the maximal runs of INSERT and   *)
(* DELETE entries between EQUAL entries (the runs before the first and      *)
(* after the last EQUAL included), of the larger of the inserted and the    *)
(* deleted length of the run.                                               *)
C7_SumOfRunMaxima ==
  pc = "measured" => out = sumOfRunMaxima(diffs)

(* C7's case: an EQUAL separates two runs, and a substitution counted once. *)
C7_SubstitutionCountedOnce ==
  /\ pc = "measured"
  /\ \E k \in 2..(Len(diffs) - 1) : diffs[k].op = EQUAL
  /\ out < totalLength(diffs, INSERT) + totalLength(diffs, DELETE)
  /\ out > Max(totalLength(diffs, INSERT), totalLength(diffs, DELETE))

(* The tokens of a delta text, and what one token must be for one entry. *)
countOf(c, t) == Cardinality({k \in 1..Len(t) : t[k] = c})

tokenFor(tok, d) ==
  /\ tok # <<>>
  /\ tok[1] = (IF d.op = EQUAL THEN 61 ELSE IF d.op = DELETE THEN 45 ELSE 43)
  /\ IF d.op = INSERT
       THEN /\ ~percentDecode(Tail(tok)).threw
            /\ percentDecode(Tail(tok)).text = d.text
            /\ countOf(32, Tail(tok)) = countOf(32, d.text)
       ELSE /\ Tail(tok) # <<>>
            /\ parseLength(Tail(tok), 0) = Len(d.text)
            /\ (Len(tok) > 2 => tok[2] # 48)

(* C8: toDelta(diffs) emits one token per entry, in order, joined by single *)
(* tabs: '=' and the text length for EQUAL, '-' and the text length for     *)
(* DELETE, '+' and the percent-encoded text for INSERT with every encoded   *)
(* space written as a space; no token contains a tab.                       *)
C8_TokenPerEntry ==
  pc \in {"encoded", "thrown"} /\ Len(diffs) >= 1
    => /\ pc = "encoded"
       /\ Len(splitTab(out)) = Len(diffs)
       /\ \A k \in 1..Len(diffs) : tokenFor(splitTab(out)[k], diffs[k])

(* C9: for all text pairs (a, b), decoding toDelta(diff(a, b)) against a    *)
(* gives back the sequence diff(a, b) returned, and so the text b.          *)
C9_DeltaRoundTrip ==
  BothStrings
    => /\ pc # "thrown"
       /\ pc = "decoded" => decoded = diffs /\ text2(decoded) = textB

(* C10: for every sequence, every index of a non-empty EQUAL entry and both *)
(* directions, deisolateChar leaves the source text and the destination     *)
(* text of the sequence unchanged.                                          *)
C10_DeisolateNeutral ==
  pc = "deisolated" => text1(diffs) = text1(entry) /\ text2(diffs) = text2(entry)

(* The edit run next to the EQUAL at 0-based index idx in direction d: the  *)
(* positions (1-based) from the entry after the EQUAL up to, not including, *)
(* the next EQUAL or the end of the sequence.                               *)
runPositions(ds, idx, d) ==
  {k \in 1..Len(ds) :
     /\ (k - (idx + 1)) * d > 0
     /\ \A n \in 1..Len(ds) :
          (n - (idx + 1)) * d > 0 /\ (k - n) * d >= 0 => ds[n].op # EQUAL}

(* The entry of kind op of the run nearest the EQUAL (a position, or 0). *)
nearestInRun(ds, idx, d, op) ==
  LET ks == {k \in runPositions(ds, idx, d) : ds[k].op = op}
  IN IF ks = {} THEN 0
     ELSE CHOOSE k \in ks : \A n \in ks : (n - k) * d >= 0

(* The character of text t nearest an EQUAL that lies against direction d,  *)
(* and t without it.                                                        *)
nearChar(t, d) == IF d = 1 THEN t[1] ELSE t[Len(t)]
dropNear(t, d) == IF d = 1 THEN Tail(t) ELSE SubSeq(t, 1, Len(t) - 1)
addNear(t, c, d) == IF d = 1 THEN <<c>> \o t ELSE Append(t, c)

(* The boundary character of the EQUAL in direction d, and the EQUAL        *)
(* without it or with one more.                                             *)
boundaryChar(t, d) == IF d = 1 THEN t[Len(t)] ELSE t[1]
dropBoundary(t, d) == IF d = 1 THEN SubSeq(t, 1, Len(t) - 1) ELSE Tail(t)
addBoundary(t, c, d) == IF d = 1 THEN Append(t, c) ELSE <<c>> \o t

runHasNoEmpty(ds, idx, d) ==
  \A k \in runPositions(ds, idx, d) : ds[k].text # <<>>

(* The INSERT and the DELETE of the run nearest the EQUAL both exist and    *)
(* share the character nearest the EQUAL.                                   *)
sharesNearChar(ds, idx, d) ==
  LET ins == nearestInRun(ds, idx, d, INSERT)
      del == nearestInRun(ds, idx, d, DELETE)
  IN /\ runHasNoEmpty(ds, idx, d)
     /\ ins # 0 /\ del # 0
     /\ nearChar(ds[ins].text, d) = nearChar(ds[del].text, d)

sharedMerge(ds, idx, d) ==
  LET ins == nearestInRun(ds, idx, d, INSERT)
      del == nearestInRun(ds, idx, d, DELETE)
  IN [k \in 1..Len(ds) |->
        IF k = idx + 1
          THEN Diff(EQUAL, addBoundary(ds[k].text, nearChar(ds[ins].text, d), d))
        ELSE IF k = ins \/ k = del THEN Diff(ds[k].op, dropNear(ds[k].text, d))
        ELSE ds[k]]

(* C11: when the run next to the EQUAL in the shift direction holds both an *)
(* INSERT and a DELETE and they share the character nearest the EQUAL,      *)
(* deisolateChar removes that character from both and adds it to the EQUAL. *)
C11_SharedCharMerged ==
  pc = "deisolated" /\ sharesNearChar(entry, i, dir) => diffs = sharedMerge(entry, i, dir)

(* The run lacks an INSERT or a DELETE, the sequence has no empty entry,    *)
(* and the EQUAL is not directly followed by another EQUAL in the shift     *)
(* direction.                                                               *)
lacksEdit(ds, idx, d) ==
  /\ \A k \in 1..Len(ds) : ds[k].text # <<>>
  /\ nearestInRun(ds, idx, d, INSERT) = 0 \/ nearestInRun(ds, idx, d, DELETE) = 0
  /\ runPositions(ds, idx, d) = {} => (idx + 1 + d) \notin 1..Len(ds)

InsertAt(ds, p, item) == SubSeq(ds, 1, p - 1) \o <<item>> \o SubSeq(ds, p, Len(ds))

(* The sequence with the boundary character moved out of the EQUAL into the *)
(* existing INSERT or DELETE of the run, before any entry is created.       *)
movedOut(ds, idx, d) ==
  LET ins == nearestInRun(ds, idx, d, INSERT)
      del == nearestInRun(ds, idx, d, DELETE)
      c == boundaryChar(ds[idx + 1].text, d)
  IN [k \in 1..Len(ds) |->
        IF k = idx + 1 THEN Diff(EQUAL, dropBoundary(ds[k].text, d))
        ELSE IF k = ins \/ k = del THEN Diff(ds[k].op, addNear(ds[k].text, c, d))
        ELSE ds[k]]

(* The places (1-based, for InsertAt) strictly between the EQUAL and the    *)
(* next EQUAL or sequence end in direction d, in a sequence ds whose run    *)
(* next to the EQUAL at position e (1-based) is rs.                         *)
placesInRun(e, rs, d) ==
  IF d = 1 THEN (e + 1)..(e + 1 + Cardinality(rs))
  ELSE (e - Cardinality(rs))..e

(* Every sequence the synthesis may produce: each missing entry created     *)
(* with the one character, somewhere inside the run.                        *)
synthesised(ds, idx, d) ==
  LET base == movedOut(ds, idx, d)
      c == boundaryChar(ds[idx + 1].text, d)
      rs == runPositions(ds, idx, d)
      needIns == nearestInRun(ds, idx, d, INSERT) = 0
      needDel == nearestInRun(ds, idx, d, DELETE) = 0
      one(op) == {InsertAt(base, p, Diff(op, <<c>>)) : p \in placesInRun(idx + 1, rs, d)}
      p0 == IF d = 1 THEN idx + 2 ELSE idx + 1
      both == {InsertAt(InsertAt(base, p0, Diff(INSERT, <<c>>)), p0, Diff(DELETE, <<c>>)),
               InsertAt(InsertAt(base, p0, Diff(DELETE, <<c>>)), p0, Diff(INSERT, <<c>>))}
  IN IF needIns /\ needDel THEN both
     ELSE IF needIns THEN one(INSERT)
     ELSE one(DELETE)

(* C12: when the run next to the EQUAL in the shift direction lacks an      *)
(* INSERT or a DELETE, deisolateChar moves the boundary character out of    *)
(* the EQUAL into the existing entry and creates each missing entry with    *)
(* that one character, strictly between the EQUAL and the next EQUAL (or    *)
(* the sequence end) in the shift direction.                                *)
C12_SynthesisInsideRun ==
  pc = "deisolated" /\ lacksEdit(entry, i, dir) => diffs \in synthesised(entry, i, dir)

(* adjustDiffForSurrogatePairs on any array without empty texts (the same  *)
(* kind may repeat), run to completion: the loops are not interrupted.      *)
MaxRepairUnits == 3

InitTotal ==
  /\ diffs \in SizedSeqs(RepairUnits, MaxRepairUnits, MaxRepairUnits, 1)
  /\ entry = diffs
  /\ pc = "adjust"
  /\ NoCall
  /\ Idle

SpecTotal == InitTotal /\ [][NextRepair]_vars /\ WF_vars(NextRepair)

(* C13: for every sequence without empty texts, adjustDiffForSurrogatePairs *)
(* terminates and raises no error, although deisolateChar splices entries   *)
(* into the array the loop is indexing.                                     *)
C13_RepairTerminates == <>(pc = "returned" /\ err = "")

(* C13's case: an entry was spliced in before the EQUAL being repaired, the *)
(* EQUAL was visited again, and the pass returned.                          *)
C13_RevisitedAndReturned ==
  /\ pc = "returned"
  /\ Len(diffs) > Len(entry)
  /\ \E k \in 1..Len(entry) :
       /\ entry[k].op = EQUAL
       /\ Len(entry[k].text) >= 2
       /\ isLowSurrogate(entry[k].text[1]) /\ isLowSurrogate(entry[k].text[2])

noAdjacentSameKind(ds) == \A k \in 1..(Len(ds) - 1) : ds[k].op # ds[k + 1].op

(* C14: if the sequence cleanupMerge produced has no two adjacent entries   *)
(* of the same kind, the sequence diff() returns after the repair has none  *)
(* either.                                                                  *)
C14_NormalFormSurvives ==
  pc = "returned" /\ BothStrings /\ noAdjacentSameKind(entry) => noAdjacentSameKind(diffs)

(* levenshtein on any array over two letters, empty texts included. *)
DistUnits == {97, 98}

MaxDistEntries == 3
MaxDistUnits == 2

InitDist ==
  /\ diffs \in SizedSeqs(DistUnits, MaxDistEntries, MaxDistUnits, 0)
  /\ entry = diffs
  /\ pc = "sequence"
  /\ NoCall
  /\ Idle

SpecDist == InitDist /\ [][NextLev]_vars

(* The classic Levenshtein distance: the least number of single-character   *)
(* insertions, deletions and substitutions turning s into t.                *)
RECURSIVE editDistance(_, _)
editDistance(s, t) ==
  IF s = <<>> THEN Len(t)
  ELSE IF t = <<>> THEN Len(s)
  ELSE Min(Min(editDistance(Tail(s), t) + 1, editDistance(s, Tail(t)) + 1),
           editDistance(Tail(s), Tail(t)) + (IF Head(s) = Head(t) THEN 0 ELSE 1))

(* C15: levenshtein(diffs) is at least the classic edit distance between    *)
(* the source text and the destination text of the sequence, and it is 0    *)
(* exactly when the sequence has no non-empty INSERT or DELETE entry.       *)
C15_BoundsEditDistance ==
  pc = "measured"
    => /\ out >= editDistance(text1(diffs), text2(diffs))
       /\ out = 0 <=> \A k \in 1..Len(diffs) : diffs[k].op # EQUAL => diffs[k].text = <<>>

(* C15's case: a sequence that edits more than the texts require. *)
C15_StrictlyAbove ==
  /\ pc = "measured"
  /\ editDistance(text1(diffs), text2(diffs)) > 0
  /\ out > editDistance(text1(diffs), text2(diffs))

(* The sum of the numbers carried by the '=' and '-' tokens of a delta. *)
consumedLength(delta) ==
  LET toks == splitTab(delta)
  IN SumSeq([k \in 1..Len(toks) |->
               IF toks[k] # <<>> /\ toks[k][1] \in {61, 45}
                 THEN parseLength(Tail(toks[k]), 0) ELSE 0])

(* C16: the numbers carried by the '=' and '-' tokens of toDelta(diffs) sum *)
(* to the length of the source text of the sequence; '+' tokens add nothing. *)
C16_ConsumesSource ==
  pc \in {"encoded", "thrown"}
    => pc = "encoded" /\ consumedLength(out) = Len(text1(diffs))

====
